---- MODULE Spec2Model ----
(***************************************************************************)
(* Model of src/main.py: a Telegram bot that relays each text message to   *)
(* the DeepSeek chat-completion API and sends the generated answer back.   *)
(*                                                                         *)
(* Strings that the program slices or trims are sequences of one-character *)
(* strings; strings it only passes around are TLA+ strings.  Every call    *)
(* that leaves the process (send_chat_action, reply_text, requests.post,   *)
(* Updater, start_polling) is a step whose outcome is chosen by the        *)
(* environment.                                                            *)
(***************************************************************************)
EXTENDS Integers, Sequences, FiniteSets, TLC

VARIABLES
    procPc,              \* where the process is: config, main, registered, polling;
                         \* crashed (the module raised), failed (main caught an
                         \* error and returned), stopped (idle returned)
    dotenv,              \* whether "from dotenv import load_dotenv" succeeds
    envToken, envKey,    \* os.getenv("TELEGRAM_TOKEN"), os.getenv("DEEPSEEK_API_KEY")
    TELEGRAM_BOT_TOKEN, DEEPSEEK_API_KEY,   \* the module globals
    log,                 \* process-level log records (a set of tags)
    update,              \* per invocation: the update handed to the handler
    pc,                  \* per invocation: position in the handler
    exc,                 \* per invocation: the exception being handled, or "none"
    respuesta,           \* per invocation: what requests.post produced
    texto_respuesta,     \* per invocation: the trimmed generated text
    i,                   \* per invocation: the loop variable of line 100
    requests,            \* per invocation: the completion requests issued
    outbox,              \* per invocation: the calls made to the chat platform
    logged               \* per invocation: the handler's error log records

vars == <<procPc, dotenv, envToken, envKey, TELEGRAM_BOT_TOKEN, DEEPSEEK_API_KEY,
          log, update, pc, exc, respuesta, texto_respuesta, i, requests, outbox,
          logged>>

procVars == <<procPc, dotenv, envToken, envKey, TELEGRAM_BOT_TOKEN,
              DEEPSEEK_API_KEY, log>>

(***************************************************************************)
(* Bounds of the model.                                                    *)
(***************************************************************************)
\* generated texts span up to MaxChunks full chunks (plus or minus one character)
MaxChunks == 2
\* up to MaxPad whitespace characters before, and as many after, a generated text
MaxPad == 1
\* handler invocations that may be in flight together in SpecConc
NumWorkers == 2

(***************************************************************************)
(* Program constants.  The fixed messages are written without their        *)
(* emoji and accents, and shortened; the program only passes them on.      *)
(***************************************************************************)
max_length == 4000
max_tokens == 600
DEEPSEEK_API_URL == "https://api.deepseek.com/v1/chat/completions"
SystemPrompt == "Eres un experto en redes WiFi y tecnologia de consumo. Responde de forma sencilla, con humor y sin tecnicismos."
ModelName == "deepseek-chat"
PlaceholderToken == "TU_TELEGRAM_TOKEN"
PlaceholderKey == "TU_DEEPSEEK_API_KEY"
WelcomeText == "Bienvenido al conversatorio de tecnologia"
ConnectivityApology == "Ups! Estoy teniendo problemas para conectar con mi cerebro"
MalformedApology == "Vaya! Mi cerebro respondio de forma inesperada"
GenericApology == "Ay! Algo salio mal"

Min(a, b) == IF a < b THEN a ELSE b

(***************************************************************************)
(* str.strip(): drop the leading and trailing whitespace.                  *)
(***************************************************************************)
Whitespace == {" ", "\n", "\t"}

Strip(s) ==
    IF \A k \in 1..Len(s) : s[k] \in Whitespace
    THEN <<>>
    ELSE LET first == CHOOSE k \in 1..Len(s) :
                          /\ s[k] \notin Whitespace
                          /\ \A j \in 1..(k-1) : s[j] \in Whitespace
             last == CHOOSE k \in 1..Len(s) :
                          /\ s[k] \notin Whitespace
                          /\ \A j \in (k+1)..Len(s) : s[j] \in Whitespace
         IN SubSeq(s, first, last)

(***************************************************************************)
(* The inputs the environment may supply.                                  *)
(***************************************************************************)
NoneValue == "<None>"
EnvTokens == {NoneValue, "123456:telegram-token"}
EnvKeys == {"", "sk-deepseek-key"}

Chats == {101, 202}

\* message texts as the update source delivers them
StartCommand == <<"/", "s", "t", "a", "r", "t">>
Questions == { <<"w", "i", "f", "i", "?">>, <<" ", "W", "i", "F", "i", "\n">> }
UpdateTexts == {StartCommand} \cup Questions
Updates == [chat : Chats, text : UpdateTexts]
\* the updates of SpecConc: a question from one chat and a command from another
ConcUpdates == { [chat |-> 101, text |-> <<" ", "W", "i", "F", "i", "\n">>],
                 [chat |-> 202, text |-> StartCommand] }

\* generated texts: a run of letters and blanks between two runs of whitespace
Letters == <<"a", "b", " ", "c", "d", "e", "f">>
Blanks == <<" ", "\n", "\t">>
Run(pattern, n) == [k \in 1..n |-> pattern[((k - 1) % Len(pattern)) + 1]]
Lengths == {0, 1} \cup { c * max_length + d : c \in 1..MaxChunks, d \in {-1, 0, 1} }
Contents == { Run(Blanks, p) \o Run(Letters, n) \o Run(Blanks, p) :
                  p \in 0..MaxPad, n \in Lengths }
ShortContents == { Run(Blanks, 1) \o Run(Letters, n) : n \in 0..1 }

\* the shapes of a 2xx response body that lack choices[0].message.content
MalformedShapes == {"no_choices", "empty_choices", "no_message", "no_content",
                    "null_content", "not_json"}
ConcShapes == {"no_choices", "empty_choices"}

Body(shape, content) ==
    CASE shape = "no_choices"    -> [error |-> "overloaded"]
      [] shape = "empty_choices" -> [choices |-> <<>>]
      [] shape = "no_message"    -> [choices |-> << [index |-> 0] >>]
      [] shape = "no_content"    -> [choices |-> << [message |-> [role |-> "assistant"]] >>]
      [] shape = "null_content"  -> [choices |-> << [message |-> [content |-> [null |-> TRUE]]] >>]
      [] shape = "content"       -> [choices |-> << [message |-> [content |-> [str |-> content]]] >>]
      [] OTHER                   -> [not_json |-> TRUE]

(***************************************************************************)
(* Line 94: respuesta_json['choices'][0]['message']['content'].strip()     *)
(* The result is the exception the expression raises, or the text.         *)
(***************************************************************************)
Extract(json) ==
    IF "choices" \notin DOMAIN json THEN [exc |-> "KeyError", text |-> <<>>]
    ELSE IF Len(json.choices) = 0 THEN [exc |-> "IndexError", text |-> <<>>]
    ELSE IF "message" \notin DOMAIN json.choices[1] THEN [exc |-> "KeyError", text |-> <<>>]
    ELSE IF "content" \notin DOMAIN json.choices[1].message
         THEN [exc |-> "KeyError", text |-> <<>>]
    ELSE IF "str" \notin DOMAIN json.choices[1].message.content
         THEN [exc |-> "AttributeError", text |-> <<>>]
    ELSE [exc |-> "none", text |-> Strip(json.choices[1].message.content.str)]

\* a slice that loses its last character
fragmentoShort(texto, from) ==
    SubSeq(texto, from + 1, Min(from + max_length - 1, Len(texto)))

\* line 102: texto_respuesta[i:i+max_length]
fragmento(texto, from) == SubSeq(texto, from + 1, Min(from + max_length, Len(texto)))

\* a request that carries the question trimmed
PayloadTrimmed(pregunta, key) ==
    [url |-> DEEPSEEK_API_URL, authorization |-> <<"Bearer", key>>,
     model |-> ModelName, system |-> SystemPrompt, user |-> Strip(pregunta),
     max_tokens |-> max_tokens]

\* lines 64-79: the completion request
Payload(pregunta, key) ==
    [url |-> DEEPSEEK_API_URL, authorization |-> <<"Bearer", key>>,
     model |-> ModelName, system |-> SystemPrompt, user |-> pregunta,
     max_tokens |-> max_tokens]

\* lines 107-115: the except clause that takes the exception, by its class
ExceptClause(e) ==
    IF e = "RequestException" THEN "RequestException"
    ELSE IF e = "KeyError" THEN "KeyError"
    ELSE "Exception"

Apology(e) ==
    CASE ExceptClause(e) = "RequestException" -> ConnectivityApology
      [] ExceptClause(e) = "KeyError"         -> MalformedApology
      [] OTHER                                -> GenericApology

ErrorLog(e) ==
    CASE ExceptClause(e) = "RequestException" -> "Error de conexion con DeepSeek"
      [] ExceptClause(e) = "KeyError"         -> "Error procesando respuesta de DeepSeek"
      [] OTHER                                -> "Error inesperado"

\* the dispatcher's routing, lines 125-126
IsCommand(text) == Len(text) > 0 /\ text[1] = "/"
Route(text) ==
    IF text = StartCommand THEN "start"
    ELSE IF ~IsCommand(text) THEN "handle_message"
    ELSE "none"

Falsy(v) == v = NoneValue \/ v = ""

TypingCall(chat, ok) == [op |-> "send_chat_action", chat |-> chat, text |-> <<>>,
                         s |-> "typing", ok |-> ok]
ReplyCall(chat, text, ok) == [op |-> "reply_text", chat |-> chat, text |-> text,
                              s |-> "", ok |-> ok]
\* a reply whose text is one of the fixed messages
FixedReply(chat, message, ok) == [op |-> "reply_text", chat |-> chat, text |-> <<>>,
                                  s |-> message, ok |-> ok]

\* a handler that talks to the chat of the update received last
ChatOfLatest(id) == update[Len(update)].chat

\* lines 55, 61, 103: the chat a handler talks to is that of its own update
ChatOf(id) == update[id].chat

Invocations == 1..Len(pc)
Terminal == {"done", "raised"}

(***************************************************************************)
(* Initial state: the interpreter is about to run the module.              *)
(***************************************************************************)
Init ==
    /\ procPc = "config"
    /\ dotenv \in BOOLEAN
    /\ envToken \in EnvTokens
    /\ envKey \in EnvKeys
    /\ TELEGRAM_BOT_TOKEN = NoneValue
    /\ DEEPSEEK_API_KEY = NoneValue
    /\ log = {}
    /\ update = <<>>
    /\ pc = <<>>
    /\ exc = <<>>
    /\ respuesta = <<>>
    /\ texto_respuesta = <<>>
    /\ i = <<>>
    /\ requests = <<>>
    /\ outbox = <<>>
    /\ logged = <<>>

handlerVars == <<update, pc, exc, respuesta, texto_respuesta, i, requests, outbox, logged>>

\* a configuration step that does not check the keys it read
LoadConfigUnchecked ==
    /\ procPc = "config"
    /\ IF dotenv
       THEN /\ TELEGRAM_BOT_TOKEN' = envToken
            /\ DEEPSEEK_API_KEY' = envKey
            /\ log' = log
       ELSE /\ log' = log \cup {"Advertencia: python-dotenv no esta instalado"}
            /\ TELEGRAM_BOT_TOKEN' = PlaceholderToken
            /\ DEEPSEEK_API_KEY' = PlaceholderKey
    /\ procPc' = "main"
    /\ UNCHANGED <<dotenv, envToken, envKey, handlerVars>>

(***************************************************************************)
(* Lines 16-33: the module-level configuration.                            *)
(***************************************************************************)
LoadConfig ==
    /\ procPc = "config"
    /\ IF dotenv
       THEN /\ TELEGRAM_BOT_TOKEN' = envToken
            /\ DEEPSEEK_API_KEY' = envKey
            /\ IF Falsy(envToken) \/ Falsy(envKey)
               THEN /\ log' = log \cup {"ERROR: Las claves de API no se encontraron",
                                        "Error cargando variables"}
                    /\ procPc' = "crashed"
               ELSE /\ log' = log
                    /\ procPc' = "main"
       ELSE /\ log' = log \cup {"Advertencia: python-dotenv no esta instalado"}
            /\ TELEGRAM_BOT_TOKEN' = PlaceholderToken
            /\ DEEPSEEK_API_KEY' = PlaceholderKey
            /\ procPc' = "main"
    /\ UNCHANGED <<dotenv, envToken, envKey, handlerVars>>

(***************************************************************************)
(* Lines 118-136: main().                                                  *)
(***************************************************************************)
\* lines 122-126: Updater(TELEGRAM_BOT_TOKEN) and the two add_handler calls
ConstructUpdater ==
    /\ procPc = "main"
    /\ \/ /\ procPc' = "registered"
          /\ log' = log
       \/ /\ procPc' = "failed"
          /\ log' = log \cup {"Error fatal al iniciar el bot"}
    /\ UNCHANGED <<dotenv, envToken, envKey, TELEGRAM_BOT_TOKEN, DEEPSEEK_API_KEY,
                   handlerVars>>

\* line 131: updater.start_polling()
StartPolling ==
    /\ procPc = "registered"
    /\ \/ /\ procPc' = "polling"
          /\ log' = log
       \/ /\ procPc' = "failed"
          /\ log' = log \cup {"Error fatal al iniciar el bot"}
    /\ UNCHANGED <<dotenv, envToken, envKey, TELEGRAM_BOT_TOKEN, DEEPSEEK_API_KEY,
                   handlerVars>>

\* line 132: updater.idle() returns when the process is signalled
Idle ==
    /\ procPc = "polling"
    /\ \A id \in Invocations : pc[id] \in Terminal
    /\ procPc' = "stopped"
    /\ UNCHANGED <<dotenv, envToken, envKey, TELEGRAM_BOT_TOKEN, DEEPSEEK_API_KEY,
                   log, handlerVars>>

(***************************************************************************)
(* The dispatcher hands an update to the handler its text routes to.       *)
(* At most n invocations are created in a behaviour.                       *)
(***************************************************************************)
Dispatch(n, updates) ==
    /\ procPc = "polling"
    /\ Len(pc) < n
    /\ \E u \in updates :
          /\ Route(u.text) # "none"
          /\ update' = Append(update, u)
          /\ pc' = Append(pc, IF Route(u.text) = "start" THEN "start" ELSE "typing0")
    /\ exc' = Append(exc, "none")
    /\ respuesta' = Append(respuesta, [kind |-> "none"])
    /\ texto_respuesta' = Append(texto_respuesta, <<>>)
    /\ i' = Append(i, 0)
    /\ requests' = Append(requests, <<>>)
    /\ outbox' = Append(outbox, <<>>)
    /\ logged' = Append(logged, {})
    /\ UNCHANGED procVars

\* a start() without its try/except
startUnguarded(id) ==
    /\ pc[id] = "start"
    /\ \E ok \in BOOLEAN :
          /\ outbox' = [outbox EXCEPT ![id] =
                           Append(@, FixedReply(ChatOf(id), WelcomeText, ok))]
          /\ pc' = [pc EXCEPT ![id] = IF ok THEN "done" ELSE "raised"]
    /\ UNCHANGED <<procVars, update, exc, respuesta, texto_respuesta, i, requests,
                   logged>>

(***************************************************************************)
(* Lines 38-49: start().                                                   *)
(***************************************************************************)
start(id) ==
    /\ pc[id] = "start"
    /\ \E ok \in BOOLEAN :
          /\ outbox' = [outbox EXCEPT ![id] =
                           Append(@, FixedReply(ChatOf(id), WelcomeText, ok))]
          /\ logged' = [logged EXCEPT ![id] =
                           IF ok THEN @ ELSE @ \cup {"Error en /start"}]
    /\ pc' = [pc EXCEPT ![id] = "done"]
    /\ UNCHANGED <<procVars, update, exc, respuesta, texto_respuesta, i, requests>>

(***************************************************************************)
(* Lines 52-115: handle_message(), one action per call that leaves the     *)
(* process.                                                                *)
(***************************************************************************)
\* line 61: the first typing indicator
SendTyping(id) ==
    /\ pc[id] = "typing0"
    /\ \E ok \in BOOLEAN :
          /\ outbox' = [outbox EXCEPT ![id] = Append(@, TypingCall(ChatOf(id), ok))]
          /\ pc' = [pc EXCEPT ![id] = IF ok THEN "post" ELSE "except"]
          /\ exc' = [exc EXCEPT ![id] = IF ok THEN @ ELSE "TelegramError"]
    /\ UNCHANGED <<procVars, update, respuesta, texto_respuesta, i, requests, logged>>

\* lines 82-89: requests.post fails, or raise_for_status turns the status into an error
PostFails(id) ==
    /\ pc[id] = "post"
    /\ requests' = [requests EXCEPT ![id] =
                       Append(@, Payload(update[id].text, DEEPSEEK_API_KEY))]
    /\ \E kind \in {"network_error", "http_error"} :
          respuesta' = [respuesta EXCEPT ![id] = [kind |-> kind]]
    /\ exc' = [exc EXCEPT ![id] = "RequestException"]
    /\ pc' = [pc EXCEPT ![id] = "except"]
    /\ UNCHANGED <<procVars, update, texto_respuesta, i, outbox, logged>>

\* what lines 93-94 make of a 2xx body; jsonError is what response.json() raises
\* on a body that is not JSON
Parse(body, jsonError) ==
    IF "not_json" \in DOMAIN body THEN [exc |-> jsonError, text |-> <<>>]
    ELSE Extract(body)

\* response.json() raises ValueError, which newer releases of requests derive
\* from RequestException
JsonErrors == {"ValueError", "RequestException"}

\* lines 82-100: a 2xx response whose body is `body`
PostOk(id, body) ==
    /\ pc[id] = "post"
    /\ requests' = [requests EXCEPT ![id] =
                       Append(@, Payload(update[id].text, DEEPSEEK_API_KEY))]
    /\ respuesta' = [respuesta EXCEPT ![id] = [kind |-> "ok", body |-> body]]
    /\ \E jsonError \in JsonErrors :
          LET parsed == Parse(body, jsonError) IN
          /\ exc' = [exc EXCEPT ![id] = parsed.exc]
          /\ texto_respuesta' = [texto_respuesta EXCEPT ![id] = parsed.text]
          /\ pc' = [pc EXCEPT ![id] =
                       IF parsed.exc # "none" THEN "except"
                       ELSE IF 0 < Len(parsed.text) THEN "typing" ELSE "done"]
          /\ logged' = [logged EXCEPT ![id] =
                           IF parsed.exc = "none" /\ Len(parsed.text) = 0
                           THEN @ \cup {"Respuesta enviada exitosamente"} ELSE @]
    /\ UNCHANGED <<procVars, update, i, outbox>>

PostMalformed(id, shapes) ==
    \E shape \in shapes : PostOk(id, Body(shape, <<>>))

PostContent(id, contents) ==
    \E content \in contents : PostOk(id, Body("content", content))

\* line 101: the typing indicator before a chunk
LoopTyping(id) ==
    /\ pc[id] = "typing"
    /\ \E ok \in BOOLEAN :
          /\ outbox' = [outbox EXCEPT ![id] = Append(@, TypingCall(ChatOf(id), ok))]
          /\ pc' = [pc EXCEPT ![id] = IF ok THEN "reply" ELSE "except"]
          /\ exc' = [exc EXCEPT ![id] = IF ok THEN @ ELSE "TelegramError"]
    /\ UNCHANGED <<procVars, update, respuesta, texto_respuesta, i, requests, logged>>

\* where the loop of line 100 goes after the chunk at `from` was sent
AfterChunk(texto, from) == IF from + max_length < Len(texto) THEN "typing" ELSE "done"

\* lines 102-105: one chunk
LoopReply(id) ==
    /\ pc[id] = "reply"
    /\ \E ok \in BOOLEAN :
          /\ outbox' = [outbox EXCEPT ![id] =
                Append(@, ReplyCall(ChatOf(id),
                                    fragmento(texto_respuesta[id], i[id]), ok))]
          /\ IF ok
             THEN /\ i' = [i EXCEPT ![id] = @ + max_length]
                  /\ pc' = [pc EXCEPT ![id] = AfterChunk(texto_respuesta[id], i[id])]
                  /\ exc' = exc
                  /\ logged' = [logged EXCEPT ![id] =
                        IF AfterChunk(texto_respuesta[id], i[id]) = "done"
                        THEN @ \cup {"Respuesta enviada exitosamente"} ELSE @]
             ELSE /\ i' = i
                  /\ pc' = [pc EXCEPT ![id] = "except"]
                  /\ exc' = [exc EXCEPT ![id] = "TelegramError"]
                  /\ logged' = logged
    /\ UNCHANGED <<procVars, update, respuesta, texto_respuesta, requests>>

\* an apology that is tried again until it is sent
AfterApologyRetry(ok) == IF ok THEN "done" ELSE "except"

\* the handler's state once the apology of an except clause was attempted
AfterApology(ok) == IF ok THEN "done" ELSE "raised"

\* lines 107-115: the except clauses
Except(id) ==
    /\ pc[id] = "except"
    /\ logged' = [logged EXCEPT ![id] = @ \cup {ErrorLog(exc[id])}]
    /\ \E ok \in BOOLEAN :
          /\ outbox' = [outbox EXCEPT ![id] =
                           Append(@, FixedReply(ChatOf(id), Apology(exc[id]), ok))]
          /\ pc' = [pc EXCEPT ![id] = AfterApology(ok)]
          /\ exc' = [exc EXCEPT ![id] = IF ok THEN @ ELSE "TelegramError"]
    /\ UNCHANGED <<procVars, update, respuesta, texto_respuesta, i, requests>>

(***************************************************************************)
(* Spec: the process from its start, serving one update.                   *)
(***************************************************************************)
Next ==
    \/ LoadConfig
    \/ ConstructUpdater
    \/ StartPolling
    \/ Idle
    \/ Dispatch(1, Updates)
    \/ \E id \in Invocations : start(id)
    \/ \E id \in Invocations : SendTyping(id)
    \/ \E id \in Invocations : PostFails(id)
    \/ \E id \in Invocations : PostMalformed(id, MalformedShapes)
    \/ \E id \in Invocations : PostContent(id, Contents)
    \/ \E id \in Invocations : LoopTyping(id)
    \/ \E id \in Invocations : LoopReply(id)
    \/ \E id \in Invocations : Except(id)

Spec == Init /\ [][Next]_vars

(***************************************************************************)
(* SpecConc: the process serving NumWorkers updates whose handlers         *)
(* interleave at every call that leaves the process.                       *)
(***************************************************************************)
NextConc ==
    \/ LoadConfig
    \/ ConstructUpdater
    \/ StartPolling
    \/ Idle
    \/ Dispatch(NumWorkers, ConcUpdates)
    \/ \E id \in Invocations : start(id)
    \/ \E id \in Invocations : SendTyping(id)
    \/ \E id \in Invocations : PostFails(id)
    \/ \E id \in Invocations : PostMalformed(id, ConcShapes)
    \/ \E id \in Invocations : PostContent(id, ShortContents)
    \/ \E id \in Invocations : LoopTyping(id)
    \/ \E id \in Invocations : LoopReply(id)
    \/ \E id \in Invocations : Except(id)

SpecConc == Init /\ [][NextConc]_vars

(***************************************************************************)
(* What the properties below read off an invocation.                       *)
(***************************************************************************)
IsMessage(id) == Route(update[id].text) = "handle_message"
Replies(id) == SelectSeq(outbox[id], LAMBDA c : c.op = "reply_text")
SentReplies(id) == SelectSeq(outbox[id], LAMBDA c : c.op = "reply_text" /\ c.ok)
AllSendsOk(id) == \A k \in 1..Len(outbox[id]) : outbox[id][k].ok
Apologies == {ConnectivityApology, MalformedApology, GenericApology}
IsApology(c) == c.op = "reply_text" /\ c.s \in Apologies
IsChunk(c) == c.op = "reply_text" /\ c.s = ""

\* the provider answered 2xx with JSON
GotJson(id) == respuesta[id].kind = "ok" /\ "not_json" \notin DOMAIN respuesta[id].body
\* ... that holds a string at choices[0].message.content
HasContent(id) ==
    /\ GotJson(id)
    /\ "choices" \in DOMAIN respuesta[id].body
    /\ Len(respuesta[id].body.choices) > 0
    /\ "message" \in DOMAIN respuesta[id].body.choices[1]
    /\ "content" \in DOMAIN respuesta[id].body.choices[1].message
    /\ "str" \in DOMAIN respuesta[id].body.choices[1].message.content
Generated(id) == respuesta[id].body.choices[1].message.content.str
Trimmed(id) == Strip(Generated(id))

Ceil(n, d) == (n + d - 1) \div d

RECURSIVE Concat(_)
Concat(calls) == IF calls = <<>> THEN <<>> ELSE Head(calls).text \o Concat(Tail(calls))

(***************************************************************************)
(* C1: a trimmed generated text of length L > 4000, every send succeeding, *)
(* is sent as ceil(L / 4000) replies; the k-th reply is the slice          *)
(* [4000*(k-1), 4000*k) of the trimmed text, the replies go out in slice   *)
(* order, and their concatenation is the trimmed text.                     *)
(***************************************************************************)
C1_Chunking ==
    \A id \in Invocations :
        (HasContent(id) /\ AllSendsOk(id) /\ Len(Trimmed(id)) > max_length) =>
            LET T == Trimmed(id)
                r == Replies(id)
            IN /\ Len(r) <= Ceil(Len(T), max_length)
               /\ \A k \in 1..Len(r) :
                     /\ IsChunk(r[k])
                     /\ r[k].text = SubSeq(T, max_length * (k - 1) + 1,
                                           Min(max_length * k, Len(T)))
               /\ pc[id] = "done" =>
                     /\ Len(r) = Ceil(Len(T), max_length)
                     /\ Concat(r) = T

\* a text of more than two chunks was sent whole, its last chunk a short one
C1_Witness ==
    \E id \in Invocations :
        /\ pc[id] = "done"
        /\ Len(Replies(id)) = 3
        /\ HasContent(id)
        /\ AllSendsOk(id)
        /\ Len(Trimmed(id)) > 2 * max_length
        /\ Len(Trimmed(id)) < Len(Generated(id))

(***************************************************************************)
(* C2: a generated text of at most 4000 characters, the empty text and the *)
(* text that trimming empties included, is answered by exactly one reply,  *)
(* which is the trimmed text.                                              *)
(***************************************************************************)
C2_OneReply ==
    \A id \in Invocations :
        (HasContent(id) /\ AllSendsOk(id) /\ pc[id] = "done"
           /\ Len(Generated(id)) <= max_length) =>
            /\ Len(Replies(id)) = 1
            /\ Replies(id)[1].text = Trimmed(id)

(***************************************************************************)
(* C3: no exception escapes handle_message, whichever step fails, the      *)
(* apology reply included; and the three error classes have three          *)
(* different apology texts.                                                *)
(***************************************************************************)
C3_NeverRaises ==
    /\ \A id \in Invocations : IsMessage(id) => pc[id] # "raised"
    /\ Cardinality({Apology("RequestException"), Apology("KeyError"),
                    Apology("TelegramError")}) = 3

(***************************************************************************)
(* C4: when the provider call fails with a transport error, one completion *)
(* request was issued, exactly one reply is sent, it is the connectivity   *)
(* apology, no chunk is sent and no exception escapes.                     *)
(***************************************************************************)
C4_TransportError ==
    \A id \in Invocations :
        (respuesta[id].kind \in {"network_error", "http_error"}
           /\ pc[id] \in Terminal) =>
            /\ Len(requests[id]) = 1
            /\ SentReplies(id) = << FixedReply(update[id].chat, ConnectivityApology, TRUE) >>
            /\ pc[id] # "raised"

(***************************************************************************)
(* C5: when the 2xx JSON lacks choices[0].message.content in any way, the  *)
(* handler replies once, with the malformed-response apology.              *)
(***************************************************************************)
C5_MalformedApology ==
    \A id \in Invocations :
        (GotJson(id) /\ ~HasContent(id) /\ pc[id] \in Terminal) =>
            /\ Len(Replies(id)) = 1
            /\ Replies(id)[1].s = MalformedApology

(***************************************************************************)
(* C6 as stated: every execution of handle_message, those whose first      *)
(* typing indicator fails included, issues exactly one completion request, *)
(* whose user turn is the incoming text and whose system turn is the       *)
(* persona.                                                                *)
(***************************************************************************)
C6_AlwaysOneRequest ==
    \A id \in Invocations :
        (IsMessage(id) /\ pc[id] \in Terminal) =>
            /\ Len(requests[id]) = 1
            /\ requests[id][1].user = update[id].text
            /\ requests[id][1].system = SystemPrompt

(***************************************************************************)
(* C6 amended: handle_message issues one completion request once its first *)
(* typing indicator was sent, and none when that send fails (it then only  *)
(* attempts the generic apology); never more than one.  The request's user *)
(* turn is the incoming text verbatim and its system turn is the persona.  *)
(***************************************************************************)
C6_OneRequestAfterTyping ==
    \A id \in Invocations :
        /\ ~IsMessage(id) => requests[id] = <<>>
        /\ IsMessage(id) =>
              /\ Len(requests[id]) =
                    IF pc[id] \notin {"typing0", "post"} /\ outbox[id][1].ok THEN 1 ELSE 0
              /\ \A k \in 1..Len(requests[id]) :
                    /\ requests[id][k].user = update[id].text
                    /\ requests[id][k].system = SystemPrompt
                    /\ requests[id][k].url = DEEPSEEK_API_URL
              /\ (pc[id] \in Terminal /\ ~outbox[id][1].ok) =>
                    /\ Len(Replies(id)) = 1
                    /\ Replies(id)[1].s = GenericApology

\* a question with leading and trailing whitespace was forwarded as it came
C6_Witness ==
    \E id \in Invocations :
        /\ pc[id] = "done"
        /\ Len(requests[id]) = 1
        /\ requests[id][1].user = <<" ", "W", "i", "F", "i", "\n">>
        /\ Strip(update[id].text) # update[id].text

(***************************************************************************)
(* C7: the start handler attempts exactly one reply, the welcome message,  *)
(* issues no completion request, and an error while sending is logged and  *)
(* swallowed: no exception escapes.                                        *)
(***************************************************************************)
C7_Start ==
    \A id \in Invocations :
        Route(update[id].text) = "start" =>
            /\ pc[id] \in {"start", "done"}
            /\ requests[id] = <<>>
            /\ pc[id] = "start" => outbox[id] = <<>>
            /\ pc[id] = "done" =>
                  /\ Len(outbox[id]) = 1
                  /\ outbox[id][1].op = "reply_text"
                  /\ outbox[id][1].s = WelcomeText
                  /\ outbox[id][1].chat = update[id].chat
                  /\ ~outbox[id][1].ok => "Error en /start" \in logged[id]

\* a welcome message that could not be sent: logged, and the handler returned
C7_Witness ==
    \E id \in Invocations :
        /\ update[id].text = StartCommand
        /\ pc[id] = "done"
        /\ ~outbox[id][1].ok
        /\ "Error en /start" \in logged[id]

(***************************************************************************)
(* C8: handler invocations are independent.  Every call an invocation      *)
(* makes is addressed to the chat of its own update; two invocations with  *)
(* the same text, the same provider outcome and the same send outcomes     *)
(* make the same requests and the same calls and end alike, whatever ran   *)
(* between their steps; and a step of one invocation, failing or not,      *)
(* changes nothing of another invocation nor the keys every invocation     *)
(* reads.                                                                  *)
(***************************************************************************)
Local(id) == <<update[id], pc[id], exc[id], respuesta[id], texto_respuesta[id], i[id],
               requests[id], outbox[id], logged[id]>>
Outcomes(id) == [k \in 1..Len(outbox[id]) |-> outbox[id][k].ok]
Calls(id) == [k \in 1..Len(outbox[id]) |->
                 <<outbox[id][k].op, outbox[id][k].s, outbox[id][k].text>>]

OwnChat ==
    \A id \in Invocations : \A k \in 1..Len(outbox[id]) :
        outbox[id][k].chat = update[id].chat

SameInputsSameOutput ==
    \A a \in Invocations : \A b \in Invocations :
        (/\ pc[a] \in Terminal
         /\ pc[b] \in Terminal
         /\ update[a].text = update[b].text
         /\ respuesta[a] = respuesta[b]
         /\ Outcomes(a) = Outcomes(b)) =>
            /\ requests[a] = requests[b]
            /\ Calls(a) = Calls(b)
            /\ pc[a] = pc[b]
            /\ logged[a] = logged[b]

OwnRequest ==
    \A id \in Invocations : \A k \in 1..Len(requests[id]) :
        requests[id][k] = Payload(update[id].text, DEEPSEEK_API_KEY)

IsolatedStep ==
    /\ \A a \in Invocations : Local(a)' # Local(a) =>
          \A b \in Invocations \ {a} : Local(b)' = Local(b)
    /\ Len(pc) > 0 => /\ DEEPSEEK_API_KEY' = DEEPSEEK_API_KEY
                      /\ TELEGRAM_BOT_TOKEN' = TELEGRAM_BOT_TOKEN

C8_Independent ==
    /\ [](OwnChat /\ OwnRequest /\ SameInputsSameOutput)
    /\ [][IsolatedStep]_vars

\* an invocation ended in an escaped exception before the next one began, and
\* that one, for another chat, delivered its reply to its own chat
C8_Witness ==
    \E a \in Invocations : \E b \in Invocations :
        /\ a < b
        /\ update[a].chat # update[b].chat
        /\ pc[a] = "raised"
        /\ pc[b] = "done"
        /\ AllSendsOk(b)
        /\ Len(SentReplies(b)) = 1
        /\ SentReplies(b)[1].chat = update[b].chat

(***************************************************************************)
(* C9 as stated: whenever a required secret is missing from the            *)
(* environment, or the update source cannot be constructed or started, the *)
(* failure is logged, the process never registers or serves a handler, and *)
(* it exits; also when dotenv is unavailable.                              *)
(***************************************************************************)
SecretMissing == Falsy(envToken) \/ Falsy(envKey)
ErrorLogged == \E r \in log : r \in {"ERROR: Las claves de API no se encontraron",
                                     "Error cargando variables",
                                     "Error fatal al iniciar el bot"}

C9_StartupFatal ==
    /\ SecretMissing =>
          /\ procPc \notin {"registered", "polling", "stopped"}
          /\ Len(pc) = 0
          /\ procPc \in {"crashed", "failed"} => ErrorLogged
    /\ procPc = "failed" => ErrorLogged /\ Len(pc) = 0

(***************************************************************************)
(* C9 amended: when dotenv is importable and a required secret is missing  *)
(* or empty, the error is logged and the module raises before main() runs; *)
(* when constructing or starting the updater raises, the error is logged   *)
(* and main() returns; in both cases no handler is ever invoked.  When     *)
(* dotenv is not importable the environment is not consulted: a warning is *)
(* logged, the placeholder literals become the keys and main() runs.       *)
(***************************************************************************)
C9_StartupFatalWithDotenv ==
    /\ (dotenv /\ SecretMissing) =>
          /\ procPc \in {"config", "crashed"}
          /\ procPc = "crashed" =>
                "ERROR: Las claves de API no se encontraron" \in log
    /\ procPc = "crashed" => dotenv /\ SecretMissing
    /\ procPc \in {"crashed", "failed"} => ErrorLogged
    /\ procPc \in {"config", "main", "registered", "crashed", "failed"} => Len(pc) = 0
    /\ (~dotenv /\ procPc # "config") =>
          /\ TELEGRAM_BOT_TOKEN = PlaceholderToken
          /\ DEEPSEEK_API_KEY = PlaceholderKey
          /\ "Advertencia: python-dotenv no esta instalado" \in log
    /\ (dotenv /\ procPc \notin {"config", "crashed"}) =>
          /\ TELEGRAM_BOT_TOKEN = envToken
          /\ DEEPSEEK_API_KEY = envKey

\* the token is set and the provider key is empty: logged, and the module raised
C9_Witness ==
    /\ dotenv
    /\ ~Falsy(envToken)
    /\ Falsy(envKey)
    /\ procPc = "crashed"
    /\ "ERROR: Las claves de API no se encontraron" \in log

(***************************************************************************)
(* C10 as stated: an invocation sends chunks of the generated text or an   *)
(* apology, never an apology after a chunk was sent, and at most one       *)
(* apology.                                                                *)
(***************************************************************************)
ApologyCount(id) == Len(SelectSeq(outbox[id], IsApology))

C10_ChunksOrApology ==
    \A id \in Invocations :
        /\ ApologyCount(id) <= 1
        /\ \A j \in 1..Len(outbox[id]) : \A k \in (j + 1)..Len(outbox[id]) :
              ~(IsChunk(outbox[id][j]) /\ outbox[id][j].ok /\ IsApology(outbox[id][k]))

(***************************************************************************)
(* C10 amended: an invocation attempts at most one apology and makes no    *)
(* call after it; an apology that follows a sent chunk is the generic one, *)
(* caused by a failed typing indicator or chunk send; the connectivity and *)
(* the malformed-response apology are never preceded by a chunk.           *)
(***************************************************************************)
C10_ApologyLast ==
    \A id \in Invocations :
        /\ ApologyCount(id) <= 1
        /\ \A k \in 1..Len(outbox[id]) :
              IsApology(outbox[id][k]) =>
                 /\ k = Len(outbox[id])
                 /\ pc[id] \in Terminal
                 /\ k > 1 /\ ~outbox[id][k - 1].ok /\ outbox[id][k - 1].op = "send_chat_action"
                       => outbox[id][k].s = GenericApology
                 /\ (\E j \in 1..(k - 1) : IsChunk(outbox[id][j])) =>
                       /\ outbox[id][k].s = GenericApology
                       /\ ~outbox[id][k - 1].ok

\* a first chunk was delivered, the second one failed, and the user got the
\* generic apology after the first chunk
C10_Witness ==
    \E id \in Invocations :
        /\ pc[id] = "done"
        /\ Len(SentReplies(id)) = 2
        /\ IsChunk(SentReplies(id)[1])
        /\ SentReplies(id)[2].s = GenericApology

====
